---- MODULE Spec2Model ----
(***************************************************************************)
(* A model of kbe.py, the Keybase conversation exporter: the query         *)
(* builder, the transport (run_query), the formatter/sink (outputmsgs),    *)
(* the pagination loop and the finalisation of conv.log.                   *)
(*                                                                         *)
(* Text.  A Python str is modelled as a sequence of tokens.  A token is    *)
(* either one of the characters the program (or tac) treats specially,     *)
(* "/", ".", "\n" and the NUL byte, or a chunk of ordinary characters.     *)
(* Concatenation is \o.  A Python value that may be None is a record       *)
(* [t |-> "None"] or [t |-> "str", v |-> <<tokens>>].                     *)
(***************************************************************************)
EXTENDS Integers, Sequences, FiniteSets, TLC

\* ------------------------------------------------------------------ bounds
\* The traffic with the transport over all runs of the exporter: read queries
\* issued plus entries delivered.
MaxTraffic == 4

\* ------------------------------------------------------------------- text
NUL == "\\0"
NL == "\n"

PyNone == [t |-> "None"]
PyStr(s) == [t |-> "str", v |-> s]

\* Python truthiness of an Optional[str]: None and "" are falsy.
Truthy(x) == x.t = "str" /\ x.v # <<>>

\* x or d, for an Optional[str] x and a str d.
OrElse(x, d) == IF Truthy(x) THEN x.v ELSE d

\* str.replace(old, new) for a one-character old.
Replace(s, old, new) == [i \in DOMAIN s |-> IF s[i] = old THEN new ELSE s[i]]

\* str.lstrip(ch) for a one-character ch.
RECURSIVE LStrip(_, _)
LStrip(s, ch) == IF s # <<>> /\ Head(s) = ch THEN LStrip(Tail(s), ch) ELSE s

\* The concatenation of a sequence of strings.
RECURSIVE Concat(_)
Concat(ss) == IF ss = <<>> THEN <<>> ELSE Head(ss) \o Concat(Tail(ss))

RECURSIVE Reverse(_)
Reverse(s) == IF s = <<>> THEN <<>> ELSE Reverse(Tail(s)) \o <<Head(s)>>

\* str(n) for an int n >= 0.
StrInt(n) == <<ToString(n)>>

\* str(l) for a list of ints: "[10, 11]".
RECURSIVE JoinInts(_)
JoinInts(l) ==
    IF l = <<>> THEN <<>>
    ELSE IF Len(l) = 1 THEN StrInt(l[1])
    ELSE StrInt(l[1]) \o <<", ">> \o JoinInts(Tail(l))

StrList(l) == <<"[">> \o JoinInts(l) \o <<"]">>

\* --------------------------------------------------- command line (13-53)
\* args.conv_name and args.output_dir of the modelled invocations.  tac is
\* installed (47-49); conv.json (--save-json) is left out of the model.
conv_name == <<".", "team", "/", "chat">>
output_dir == PyNone

conv_dir == OrElse(output_dir, Replace(LStrip(conv_name, "."), "/", "_"))

pg == 1000

\* ------------------------------------------------------ build_query (87-124)
\* An absent message_id or pagination_size is 0, an absent file_name <<>>.
build_query(name, method, message_id, file_name, pagination_start, pagination_size) ==
    IF method = "read"
    THEN [method |-> "read",
          params |-> [options |->
              [channel |-> [name |-> name],
               pagination |-> [num |-> IF pagination_size # 0 THEN pagination_size ELSE pg,
                               next |-> OrElse(pagination_start, <<>>)]]]]
    ELSE [method |-> "download",
          params |-> [options |->
              [channel |-> [name |-> name],
               output |-> file_name,
               message_id |-> message_id]]]

\* --------------------------------------------- datetime / strftime (235)
Pad2(n) == IF n < 10 THEN "0" \o ToString(n) ELSE ToString(n)

Pad4(n) ==
    IF n < 10 THEN "000" \o ToString(n)
    ELSE IF n < 100 THEN "00" \o ToString(n)
    ELSE IF n < 1000 THEN "0" \o ToString(n)
    ELSE ToString(n)

\* The proleptic Gregorian date of day number `days` since 1970-01-01
\* (days >= 0), as datetime.utcfromtimestamp computes it.
CivilFromDays(days) ==
    LET z == days + 719468
        era == z \div 146097
        doe == z - era * 146097
        yoe == (doe - doe \div 1460 + doe \div 36524 - doe \div 146096) \div 365
        doy == doe - (365 * yoe + yoe \div 4 - yoe \div 100)
        mp == (5 * doy + 2) \div 153
        d == doy - (153 * mp + 2) \div 5 + 1
        m == IF mp < 10 THEN mp + 3 ELSE mp - 9
        y == yoe + era * 400 + (IF m <= 2 THEN 1 ELSE 0)
    IN  [year |-> y, month |-> m, day |-> d]

\* datetime.utcfromtimestamp(sent_at).strftime("%Y-%m-%d %H:%M:%S"), sent_at >= 0.
sent_at_str(sent_at) ==
    LET date == CivilFromDays(sent_at \div 86400)
        secs == sent_at % 86400
    IN  <<Pad4(date.year) \o "-" \o Pad2(date.month) \o "-" \o Pad2(date.day) \o " "
          \o Pad2(secs \div 3600) \o ":" \o Pad2((secs % 3600) \div 60) \o ":"
          \o Pad2(secs % 60)>>

\* ------------------------------------------------- entry accessors (142-168)
get_content_type(entry) == entry.msg.content.type

get_sender(entry) == entry.msg.sender.username

get_msg_id(entry) == entry.msg.id

\* Called only for the two content types that carry a filename (187, 209).
get_filename(entry) ==
    IF get_content_type(entry) = "attachment"
    THEN entry.msg.content.attachment.object.filename
    ELSE entry.msg.content.attachment_uploaded.object.filename

mk_out_filename(entry) ==
    conv_dir \o <<"/", "msg_id_">> \o StrInt(get_msg_id(entry)) \o <<"_">>
        \o Replace(get_filename(entry), "/", "_")

\* RenderOut without the else arm of line 233: `out` stays "".
RenderOutNoDefault(entry) ==
    LET ctype == get_content_type(entry)
        content == entry.msg.content
    IN  CASE ctype = "text" ->
               <<"<">> \o get_sender(entry) \o <<"> ">> \o content.text.body
          [] ctype = "reaction" ->
               <<"* ">> \o get_sender(entry) \o <<": ">> \o content.reaction.b
          [] ctype = "attachment" ->
               get_sender(entry) \o <<" sent attachment ">> \o mk_out_filename(entry)
          [] ctype = "attachmentuploaded" ->
               get_sender(entry) \o <<" attachment ">> \o mk_out_filename(entry)
                   \o <<" uploaded">>
          [] ctype = "edit" ->
               get_sender(entry) \o <<" edited message with id ">>
                   \o StrInt(content.edit.messageID) \o <<" to: ">> \o content.edit.body
          [] ctype = "delete" ->
               get_sender(entry) \o <<" deleted message with ids ">>
                   \o StrList(content.delete.messageIDs)
          [] ctype = "unfurl" ->
               get_sender(entry) \o <<" sent unfurl: ">> \o content.unfurl.unfurl.url
          [] OTHER -> <<>>

\* The text `out` of one entry (177-234).
RenderOut(entry) ==
    LET ctype == get_content_type(entry)
        content == entry.msg.content
    IN  CASE ctype = "text" ->
               <<"<">> \o get_sender(entry) \o <<"> ">> \o content.text.body
          [] ctype = "reaction" ->
               <<"* ">> \o get_sender(entry) \o <<": ">> \o content.reaction.b
          [] ctype = "attachment" ->
               get_sender(entry) \o <<" sent attachment ">> \o mk_out_filename(entry)
          [] ctype = "attachmentuploaded" ->
               get_sender(entry) \o <<" attachment ">> \o mk_out_filename(entry)
                   \o <<" uploaded">>
          [] ctype = "edit" ->
               get_sender(entry) \o <<" edited message with id ">>
                   \o StrInt(content.edit.messageID) \o <<" to: ">> \o content.edit.body
          [] ctype = "delete" ->
               get_sender(entry) \o <<" deleted message with ids ">>
                   \o StrList(content.delete.messageIDs)
          [] ctype = "unfurl" ->
               get_sender(entry) \o <<" sent unfurl: ">> \o content.unfurl.unfurl.url
          [] OTHER ->
               <<"(unknown message type '", ctype, "')">>

\* The record dest.write receives for one entry (235-236).
Record(entry) ==
    <<"#">> \o StrInt(get_msg_id(entry)) \o <<" - ">>
        \o sent_at_str(entry.msg.sent_at) \o <<" - ">> \o RenderOut(entry) \o <<NL, NUL>>

\* ------------------------------------------------------ tac -s "" (263)
\* The records of `data`: each ends with its NUL separator; a last piece
\* without one is a record too.
RECURSIVE SplitRecords(_, _)
SplitRecords(data, cur) ==
    IF data = <<>> THEN (IF cur = <<>> THEN <<>> ELSE <<cur>>)
    ELSE IF Head(data) = NUL
         THEN <<cur \o <<NUL>>>> \o SplitRecords(Tail(data), <<>>)
         ELSE SplitRecords(Tail(data), cur \o <<Head(data)>>)

tac(data) == Concat(Reverse(SplitRecords(data, <<>>)))

\* ------------------------------------------------------------ the transport
\* What `keybase chat api` may answer to a read: entries of these shapes
\* (result.messages) and one of these values of result.pagination.get("next").
Entry(id, sender, sent_at, content) ==
    [msg |-> [id |-> id, sender |-> [username |-> sender], sent_at |-> sent_at,
              content |-> content]]

EText ==
    Entry(42, <<"alice">>, 0,
          [type |-> "text", text |-> [body |-> <<"hello", NL, "world">>]])

EReaction ==
    Entry(43, <<"bob">>, 86399, [type |-> "reaction", reaction |-> [b |-> <<":+1:">>]])

EAttachment ==
    Entry(44, <<"alice">>, 951782400,
          [type |-> "attachment",
           attachment |-> [object |-> [filename |-> <<"dir", "/", "pic", ".", "png">>]]])

EAttachmentUploaded ==
    Entry(45, <<"alice">>, 951782401,
          [type |-> "attachmentuploaded",
           attachment_uploaded |-> [object |-> [filename |-> <<"pic", ".", "png">>]]])

EEdit ==
    Entry(46, <<"alice">>, 1700000000,
          [type |-> "edit", edit |-> [messageID |-> 42, body |-> <<"x", NUL, "y">>]])

EDelete ==
    Entry(47, <<"bob">>, 1700000001,
          [type |-> "delete", delete |-> [messageIDs |-> <<10, 11>>]])

EUnfurl ==
    Entry(48, <<"bob">>, 1700000002,
          [type |-> "unfurl",
           unfurl |-> [unfurl |-> [url |-> <<"https:", "/", "/", "e", ".", "org">>]]])

EPoll ==
    Entry(49, <<"bob">>, 1700000003, [type |-> "poll"])

Entries ==
    {EText, EReaction, EAttachment, EAttachmentUploaded, EEdit, EDelete,
     EUnfurl, EPoll}

\* Record and mk_out_filename of each entry the transport may deliver.
RecordOf == [e \in Entries |-> Record(e)]

PathOf ==
    [e \in {x \in Entries : get_content_type(x) = "attachment"} |-> mk_out_filename(e)]

Cursors == {PyNone, PyStr(<<>>), PyStr(<<"c1">>), PyStr(<<"c2">>)}

\* The sequences over S of length at most n.
SeqsUpTo(S, n) == UNION {[1..k -> S] : k \in 0..n}

\* ------------------------------------------------------------------ state
VARIABLES
    skip_attachments,   \* args.skip_attachments of the running invocation
    keep_reverse,       \* args.keep_reverse of the running invocation
    pc,                 \* "FETCHING" (in the while loop), "DONE", "ABORTED"
    exit_status,        \* -1 while running, then the process's exit status
    query,              \* the module-level `query`
    last_page,          \* the module-level `last_page`
    tf,                 \* the records written to the temporary file, in order
    log,                \* conv.log: PyNone when absent, else PyStr(content)
    files,              \* the attachment files that exist in conv_dir
    queries,            \* every query handed to run_query in this run, in order
    pages,              \* the result.messages of every read answered in this run
    cursors,            \* the `next` outputmsgs returned for each page of this run
    log0,               \* conv.log as it was when this run started
    files0,             \* the attachment files present when this run started
    run,                \* which invocation this is
    nreads,             \* read queries issued over all runs
    nmsgs               \* entries delivered over all runs

vars ==
    <<skip_attachments, keep_reverse, pc, exit_status, query, last_page, tf, log,
      files, queries, pages, cursors, log0, files0, run, nreads, nmsgs>>

\* The state of an invocation after line 243: nothing fetched yet.
Start(skip, keep) ==
    /\ skip_attachments' = skip
    /\ keep_reverse' = keep
    /\ pc' = "FETCHING"
    /\ exit_status' = -1
    /\ query' = build_query(conv_name, "read", 0, <<>>, PyNone, pg)
    /\ last_page' = PyNone
    /\ tf' = <<>>
    /\ queries' = <<>>
    /\ pages' = <<>>
    /\ cursors' = <<>>

Init ==
    /\ skip_attachments \in BOOLEAN
    /\ keep_reverse \in BOOLEAN
    /\ pc = "FETCHING"
    /\ exit_status = -1
    /\ query = build_query(conv_name, "read", 0, <<>>, PyNone, pg)
    /\ last_page = PyNone
    /\ tf = <<>>
    /\ log = PyNone
    /\ files = {}
    /\ queries = <<>>
    /\ pages = <<>>
    /\ cursors = <<>>
    /\ log0 = PyNone
    /\ files0 = {}
    /\ run = 1
    /\ nreads = 0
    /\ nmsgs = 0

\* ------------------------------------------- outputmsgs, the loop over entries
\* NeedsDownload without the os.path.exists test of line 190.
NeedsDownloadAgain(entry, present) ==
    /\ get_content_type(entry) = "attachment"
    /\ ~skip_attachments

\* NeedsDownload without the skip_attachments test of line 189.
NeedsDownloadAlways(entry, present) ==
    /\ get_content_type(entry) = "attachment"
    /\ PathOf[entry] \notin present

\* Lines 186-196: whether the entry makes outputmsgs issue a download query,
\* `present` being the files that exist when the entry is processed.
NeedsDownload(entry, present) ==
    /\ get_content_type(entry) = "attachment"
    /\ ~skip_attachments
    /\ PathOf[entry] \notin present

\* WriteRecord putting the newest record first.
WriteRecordFront(buffer, entry) == <<RecordOf[entry]>> \o buffer

\* Line 236: dest.write of the entry's record.
WriteRecord(buffer, entry) == Append(buffer, RecordOf[entry])

\* NextQuery built from last_page as it was before line 252 updates it.
NextQueryStale(next_page) == build_query(conv_name, "read", 0, <<>>, last_page, pg)

\* Line 253: the query of the next iteration.
NextQuery(next_page) == build_query(conv_name, "read", 0, <<>>, next_page, pg)

\* The for loop of outputmsgs (176-236) over `entries`, from the sink state st:
\* the records written, the files present, the queries issued, and ok = FALSE
\* once a download has failed (run_query raises, 136-139).  `fail` is the
\* position in the page of the entry whose download fails, 0 for none.  A
\* download that succeeds leaves its file at the path named in the query.
RECURSIVE ProcessEntries(_, _, _)
ProcessEntries(entries, st, fail) ==
    IF entries = <<>> \/ ~st.ok THEN st
    ELSE LET entry == Head(entries)
             download == NeedsDownload(entry, st.files)
             file_name == PathOf[entry]
             q == build_query(conv_name, "download", get_msg_id(entry), file_name,
                              PyNone, 0)
         IN  IF download /\ fail = st.i + 1
             THEN [st EXCEPT !.queries = Append(@, q), !.ok = FALSE, !.i = @ + 1]
             ELSE ProcessEntries(Tail(entries),
                      [tf |-> WriteRecord(st.tf, entry),
                       files |-> IF download THEN st.files \cup {file_name} ELSE st.files,
                       queries |-> IF download THEN Append(st.queries, q) ELSE st.queries,
                       ok |-> TRUE,
                       i |-> st.i + 1],
                      fail)

\* outputmsgs(query, dest=tf) up to its return: the read is issued and answered
\* with `messages`, then the entries are processed.
outputmsgs(messages, fail) ==
    ProcessEntries(messages,
        [tf |-> tf, files |-> files, queries |-> Append(queries, query),
         ok |-> TRUE, i |-> 0],
        fail)

\* Lines 254-263: the content conv.log gets once the loop has ended.
FinalLog(buffer) ==
    IF keep_reverse THEN Concat(buffer) ELSE tac(Concat(buffer))

\* LoopEnds without the comparison of line 249.
LoopEndsNoRepeat(next_page) == ~Truthy(next_page)

\* LoopEnds comparing with every cursor seen, not only the last.
LoopEndsAnyEarlier(next_page) ==
    ~Truthy(next_page) \/ \E i \in DOMAIN cursors : cursors[i] = next_page

\* LoopEnds testing `is None` where line 246 tests truthiness.
LoopEndsNoneOnly(next_page) == next_page = PyNone \/ next_page = last_page

\* Whether the while loop ends after a page whose cursor is next_page (246-251).
LoopEnds(next_page) == ~Truthy(next_page) \/ next_page = last_page

\* ---------------------------------------------------------------- actions
\* One iteration of the while loop in which every query succeeds: the page is
\* fetched and formatted, then the loop either goes on with the new cursor or
\* ends, and then lines 254-263 write conv.log and the process exits with 0.
FetchPage ==
    /\ pc = "FETCHING"
    /\ nreads + nmsgs < MaxTraffic
    /\ nreads' = nreads + 1
    /\ \E messages \in SeqsUpTo(Entries, MaxTraffic - nreads - nmsgs - 1),
          next_page \in Cursors :
         LET st == outputmsgs(messages, 0)
         IN  /\ tf' = st.tf
             /\ files' = st.files
             /\ queries' = st.queries
             /\ pages' = Append(pages, messages)
             /\ cursors' = Append(cursors, next_page)
             /\ nmsgs' = nmsgs + Len(messages)
             /\ IF LoopEnds(next_page)
                THEN /\ log' = PyStr(FinalLog(st.tf))
                     /\ pc' = "DONE"
                     /\ exit_status' = 0
                     /\ UNCHANGED <<query, last_page>>
                ELSE /\ last_page' = next_page
                     /\ query' = NextQuery(next_page)
                     /\ UNCHANGED <<log, pc, exit_status>>
    /\ UNCHANGED <<skip_attachments, keep_reverse, log0, files0, run>>

\* ReadFails had conv.log been opened for writing before the loop.
ReadFailsLogOpened ==
    /\ pc = "FETCHING"
    /\ nreads + nmsgs < MaxTraffic
    /\ nreads' = nreads + 1
    /\ queries' = Append(queries, query)
    /\ pc' = "ABORTED"
    /\ exit_status' = 1
    /\ log' = PyStr(<<>>)
    /\ UNCHANGED <<skip_attachments, keep_reverse, query, last_page, tf, files,
                   pages, cursors, log0, files0, run, nmsgs>>

\* The read of line 172 fails: keybase exits non-zero (check=True raises) or
\* its output is not JSON (json.loads raises).  The exception leaves the with
\* block, the temporary file is removed and the process exits with 1.
ReadFails ==
    /\ pc = "FETCHING"
    /\ nreads + nmsgs < MaxTraffic
    /\ nreads' = nreads + 1
    /\ queries' = Append(queries, query)
    /\ pc' = "ABORTED"
    /\ exit_status' = 1
    /\ UNCHANGED <<skip_attachments, keep_reverse, query, last_page, tf, log, files,
                   pages, cursors, log0, files0, run, nmsgs>>

\* The read succeeds and the download of the entry at position `fail` of the
\* page fails (197-204): the records of the entries before it were written.
\* keybase may have written the file, or part of it, before it failed.
DownloadFails ==
    /\ pc = "FETCHING"
    /\ nreads + nmsgs < MaxTraffic
    /\ nreads' = nreads + 1
    /\ \E messages \in SeqsUpTo(Entries, MaxTraffic - nreads - nmsgs - 1) :
         \E fail \in 1..Len(messages) :
           LET st == outputmsgs(messages, fail)
           IN  /\ ~st.ok
               /\ tf' = st.tf
               /\ \E left \in SUBSET {PathOf[messages[fail]]} : files' = st.files \cup left
               /\ queries' = st.queries
               /\ pages' = Append(pages, messages)
               /\ nmsgs' = nmsgs + Len(messages)
    /\ pc' = "ABORTED"
    /\ exit_status' = 1
    /\ UNCHANGED <<skip_attachments, keep_reverse, query, last_page, log, cursors, log0,
                   files0, run>>

\* The exporter is invoked again on the same output directory, which keeps
\* conv.log and the attachment files of the earlier runs.
Rerun ==
    /\ pc \in {"DONE", "ABORTED"}
    /\ \E skip \in BOOLEAN, keep \in BOOLEAN : Start(skip, keep)
    /\ run' = run + 1
    /\ nreads + nmsgs < MaxTraffic
    /\ log0' = log
    /\ files0' = files
    /\ UNCHANGED <<log, files, nreads, nmsgs>>

Next ==
    \/ FetchPage
    \/ ReadFails
    \/ DownloadFails
    \/ Rerun

Spec == Init /\ [][Next]_vars

\* ------------------------------------------------------------- properties
IsRead(q) == q.method = "read"

IsDownload(q) == q.method = "download"

\* Every entry received in this run, page after page.
received == Concat(pages)

\* The read queries and the download queries of this run, in order.
Reads == SelectSeq(queries, IsRead)

Downloads == SelectSeq(queries, IsDownload)

CursorA == PyStr(<<"c1">>)

CursorB == PyStr(<<"c2">>)

KnownTypes ==
    {"text", "reaction", "attachment", "attachmentuploaded", "edit", "delete", "unfurl"}

\* "#<id> - <UTC time> - " of an entry.
LinePrefix(entry) ==
    <<"#">> \o StrInt(entry.msg.id) \o <<" - ">> \o sent_at_str(entry.msg.sent_at)
        \o <<" - ">>

AttachmentEntries == {e \in Entries : e.msg.content.type = "attachment"}

UnknownEntries == {e \in Entries : e.msg.content.type \notin KnownTypes}

\* The record each entry is to leave in the buffer.
LineOf == [e \in Entries |-> LinePrefix(e) \o RenderOut(e) \o <<NL, NUL>>]

\* "<output-dir>/msg_id_<id>_<sanitized-filename>" of each attachment entry.
DerivedPath ==
    [e \in AttachmentEntries |->
        conv_dir \o <<"/", "msg_id_">> \o StrInt(e.msg.id) \o <<"_">>
            \o Replace(e.msg.content.attachment.object.filename, "/", "_")]

\* "#<id> - <time> - <sender> sent attachment <derived path>".
AttachmentLine ==
    [e \in AttachmentEntries |->
        LinePrefix(e) \o e.msg.sender.username \o <<" sent attachment ">>
            \o DerivedPath[e] \o <<NL, NUL>>]

\* "#<id> - <time> - (unknown message type '<raw-type>')".
UnknownLine ==
    [e \in UnknownEntries |->
        LinePrefix(e) \o <<"(unknown message type '", e.msg.content.type, "')", NL, NUL>>]

\* Some cursor recurs among the cursors of this run's pages.
CursorRecurs ==
    \E i, j \in DOMAIN cursors : i < j /\ Truthy(cursors[i]) /\ cursors[i] = cursors[j]

\* The last page's cursor is the one of the page just before it.
CursorRepeatsAtOnce ==
    /\ Len(cursors) >= 2
    /\ Truthy(cursors[Len(cursors)])
    /\ cursors[Len(cursors)] = cursors[Len(cursors) - 1]

\* The pages the transport has answered in this run.
PagesReceived == Len(pages)

\* C1, as stated: once some cursor of the run recurs (as in [c1, c2, c1]),
\* the pagination driver has stopped: it is not about to issue another read.
C1_StopsOnAnyRecurrence == CursorRecurs => pc # "FETCHING"

\* C1, amended: once a page returns the non-empty cursor of the page
\* immediately before it (as in [c1, c1]), the driver has stopped: the run is
\* DONE with exit status 0, conv.log is written, and it issued one read per page.
C1_StopsOnImmediateRepeat ==
    CursorRepeatsAtOnce =>
        /\ pc = "DONE"
        /\ exit_status = 0
        /\ log # PyNone
        /\ Len(Reads) = Len(cursors)

C1_Witness == pc = "DONE" /\ cursors = <<CursorA, CursorA>>

\* C2: after each page fetch of a run that has not aborted, the driver is DONE
\* exactly when the page's cursor is absent, empty or the cursor of the page
\* immediately before; when DONE the run has exit status 0, has written
\* conv.log and has issued no read beyond its pages; otherwise the driver is
\* FETCHING with a read query for that cursor.
C2_DoneIffCursorEnds ==
    (pc # "ABORTED" /\ cursors # <<>>) =>
        LET n == Len(cursors)
            last == cursors[n]
            ends == ~Truthy(last) \/ (n >= 2 /\ last = cursors[n - 1])
        IN  /\ pc = "DONE" <=> ends
            /\ pc = "DONE" =>
                 /\ exit_status = 0
                 /\ log = PyStr(IF keep_reverse THEN Concat(tf) ELSE tac(Concat(tf)))
                 /\ Len(Reads) = n
            /\ pc = "FETCHING" =>
                 /\ IsRead(query)
                 /\ query.params.options.pagination.next = last.v

C2_Witness ==
    /\ pc = "DONE"
    /\ cursors = <<CursorA, CursorB, CursorB>>
    /\ log # PyNone
    /\ exit_status = 0

\* C3: at every point of a run that has not aborted, the temporary buffer
\* holds exactly one record per entry received, in the order of arrival: the
\* k-th record is the record of the k-th entry, whatever its content type and
\* whether or not its page was the last.
C3_OneLinePerMessageInOrder ==
    pc # "ABORTED" =>
        /\ Len(tf) = Len(received)
        /\ \A k \in DOMAIN received : tf[k] = LineOf[received[k]]

C3_Witness ==
    /\ pc = "DONE"
    /\ Len(cursors) = 2
    /\ pages = <<<<EPoll>>, <<EAttachment>>>>
    /\ Len(tf) = 2

\* C4: when the run is DONE, conv.log holds the buffered records in exactly
\* the reverse of their arrival order by default, and in arrival order with
\* --keep-reverse.
C4_LogIsReversedBuffer ==
    pc = "DONE" =>
        log = PyStr(IF keep_reverse THEN Concat(tf) ELSE Concat(Reverse(tf)))

\* C4, for records without a NUL byte in their content, and with
\* --keep-reverse: conv.log is the buffer reversed record by record, or the
\* buffer itself.
C4_HoldsWithoutNul ==
    (pc = "DONE" /\ (keep_reverse \/ \A k \in DOMAIN tf :
                                        \A i \in 1..(Len(tf[k]) - 1) : tf[k][i] # NUL)) =>
        log = PyStr(IF keep_reverse THEN Concat(tf) ELSE Concat(Reverse(tf)))

\* C5: no download query of a run names a file that existed when the run
\* started, and no two download queries of a run name the same file; when
\* --skip-attachments is unset and the run has not aborted, the file of every
\* attachment entry received exists, and if it did not exist when the run
\* started then a download query for that entry's id and path was issued.
C5_NoRedownload ==
    /\ \A i \in DOMAIN queries :
         IsDownload(queries[i]) =>
           /\ queries[i].params.options.output \notin files0
           /\ \A j \in 1..(i - 1) : queries[j] # queries[i]
    /\ (~skip_attachments /\ pc # "ABORTED") =>
         \A k \in DOMAIN received :
           received[k] \in AttachmentEntries =>
             LET path == DerivedPath[received[k]]
             IN  /\ path \in files
                 /\ path \notin files0 =>
                      \E i \in DOMAIN queries :
                        /\ IsDownload(queries[i])
                        /\ queries[i].params.options.output = path
                        /\ queries[i].params.options.message_id = received[k].msg.id

\* A second run, without --skip-attachments, meets an attachment the first
\* run downloaded and issues no download.
C5_Witness ==
    /\ run = 2
    /\ pc = "DONE"
    /\ ~skip_attachments
    /\ \E k \in DOMAIN received : received[k] = EAttachment
    /\ DerivedPath[EAttachment] \in files0
    /\ Downloads = <<>>

\* C6: with --skip-attachments every query of the run is a read, and every
\* attachment entry received has its record
\* "#<id> - <time> - <sender> sent attachment <derived path>" in the buffer.
C6_SkipAttachmentsOnlyReads ==
    skip_attachments =>
        /\ \A i \in DOMAIN queries : IsRead(queries[i])
        /\ Len(tf) = Len(received)
        /\ \A k \in DOMAIN received :
             received[k] \in AttachmentEntries => tf[k] = AttachmentLine[received[k]]

\* A run with --skip-attachments meets an attachment whose file an earlier
\* run downloaded: it is logged and no query but the read is issued.
C6_Witness ==
    /\ skip_attachments
    /\ pc = "DONE"
    /\ received = <<EAttachment>>
    /\ DerivedPath[EAttachment] \in files
    /\ Len(queries) = 1
    /\ tf = <<<<"#", "44", " - ", "2000-02-29 00:00:00", " - ", "alice",
               " sent attachment ", "team", "_", "chat", "/", "msg_id_", "44", "_",
               "dir", "_", "pic", ".", "png", NL, NUL>>>>

\* C7: a run that aborted has exit status 1 and left conv.log as it was when
\* the run started; it issued no query after the failed one: outputmsgs
\* returned from every read but the last, and every download but the last
\* query left its file.  A run in its loop has no exit status and has not
\* touched conv.log: conv.log differs from what it was at the start of the run
\* only once the run is DONE.
C7_AbortLeavesLogUntouched ==
    /\ pc = "ABORTED" =>
         /\ exit_status = 1
         /\ log = log0
         /\ queries # <<>>
         /\ Len(Reads) = Len(cursors) + 1
         /\ \A i \in 1..(Len(queries) - 1) :
              IsRead(queries[i]) \/ queries[i].params.options.output \in files
    /\ log # log0 => pc = "DONE"
    /\ pc = "FETCHING" => exit_status = -1 /\ log = log0

C7_Witness ==
    /\ pc = "ABORTED"
    /\ exit_status = 1
    /\ Len(cursors) >= 1
    /\ tf # <<>>
    /\ log0 # PyNone
    /\ log = log0

\* C8: an entry whose content type is none of the seven known ones has the
\* record "#<id> - <time> - (unknown message type '<type>')" at its place in
\* the buffer, no download query names its id, and unless the run aborted
\* every entry received after it has its record too.
C8_UnknownTypeIsLogged ==
    \A k \in DOMAIN received :
      received[k] \in UnknownEntries =>
        /\ k <= Len(tf) => tf[k] = UnknownLine[received[k]]
        /\ \A i \in DOMAIN queries :
             IsDownload(queries[i]) =>
               queries[i].params.options.message_id # received[k].msg.id
        /\ pc # "ABORTED" => Len(tf) = Len(received)

C8_Witness ==
    /\ pc = "DONE"
    /\ Len(cursors) = 2
    /\ pages = <<<<EPoll>>, <<EText>>>>
    /\ tf[1] = <<"#", "49", " - ", "2023-11-14 22:13:23", " - ",
                 "(unknown message type '", "poll", "')", NL, NUL>>
    /\ Len(tf) = 2

\* C9: when the first read of a run returns no message and no cursor (absent
\* or empty), the run is DONE with exit status 0, conv.log exists and is
\* empty, and the run's only query is the first read.
C9_EmptyConversation ==
    (Len(cursors) = 1 /\ received = <<>> /\ ~Truthy(cursors[1])) =>
        /\ pc = "DONE"
        /\ exit_status = 0
        /\ log = PyStr(<<>>)
        /\ Len(queries) = 1
        /\ IsRead(queries[1])

C9_Witness ==
    /\ Len(cursors) = 1
    /\ received = <<>>
    /\ cursors[1] = PyNone
    /\ ~keep_reverse
    /\ pc = "DONE"
    /\ log = PyStr(<<>>)

\* Every read asks for 1000 entries; the first carries the empty cursor and
\* the k-th carries the cursor of page k-1.
CursorThreading ==
    /\ Len(Reads) <= Len(cursors) + 1
    /\ \A k \in DOMAIN Reads :
         /\ Reads[k].params.options.channel.name = conv_name
         /\ Reads[k].params.options.pagination.num = 1000
         /\ Reads[k].params.options.pagination.next =
              (IF k = 1 THEN <<>> ELSE cursors[k - 1].v)
    /\ pc = "FETCHING" =>
         /\ IsRead(query)
         /\ query.params.options.pagination.num = 1000
         /\ query.params.options.pagination.next =
              (IF cursors = <<>> THEN <<>> ELSE cursors[Len(cursors)].v)

\* C10, as stated: cursor threading, and the number of read queries equals the
\* number of pages received.
C10_ReadsEqualPages == CursorThreading /\ Len(Reads) = PagesReceived

\* C10, amended: cursor threading, and the number of read queries equals the
\* number of pages received, except that a read on which the transport failed
\* was issued and brought no page: then there is one read more than pages.
C10_ReadsEqualPagesUnlessReadFailed ==
    /\ CursorThreading
    /\ Len(Reads) = PagesReceived
                      + (IF pc = "ABORTED" /\ IsRead(queries[Len(queries)]) THEN 1 ELSE 0)

C10_Witness ==
    /\ pc = "FETCHING"
    /\ cursors = <<CursorA, CursorB>>
    /\ Len(Reads) = 2
    /\ query.params.options.pagination.next = <<"c2">>

====
